---- MODULE Spec2Model ----
(***************************************************************************)
(* Model of the webhook intake path (routes/whatsapp-optimized.js), of the *)
(* message processor (isMessageProcessed, markAsProcessing,                *)
(* markAsCompleted, processWithLock, processInBackground) and of the       *)
(* configuration cache (services/config-cache.js).                         *)
(*                                                                         *)
(* Scheduling: one JavaScript event loop.  One action of the model is one  *)
(* macrotask (an HTTP request arriving, an I/O completion, a setImmediate  *)
(* callback, a timer) together with all the promise continuations it       *)
(* makes runnable, in the order the promise job queue runs them.           *)
(*                                                                         *)
(* Specifications of the processor: Spec delivers MaxReq requests;         *)
(* SpecWide one more; SpecNewMessages one more, none of them a redelivery; *)
(* SpecRetry lets a redelivered message fail again; SpecRestart adds       *)
(* process restarts.  Specifications of the cache: SpecCache (calls,       *)
(* failing fetches, invalidations), SpecCacheLoads (one call more, every   *)
(* fetch succeeds), SpecCacheTime (calls while entries expire).            *)
(* SpecIndicatorsFail: pipelines whose read-receipt and reaction calls     *)
(* reject.  SpecKeys: the conversation key of two messageData.  SpecHealth: *)
(* the health endpoint read between the steps of requests and cache calls. *)
(***************************************************************************)
EXTENDS Integers, Sequences, FiniteSets, TLC

\* ------------------------------------------------------------------ bounds
MaxReq == 2                     \* webhook POST requests delivered in a run
MaxFailures == 1                \* pipeline executions that fail in a run
MaxExpiries == 1                \* two-minute marker timers that fire in a run
MaxRestarts == 1                \* process restarts in a run
MaxCalls == 2                   \* calls of the getCached* functions in a run
MaxAdvances == 2                \* times the clock is moved forward in a run
MaxUpdates == 1                 \* changes of the configuration rows in a run

\* ------------------------------------------------------------ data model
\* Request slots.  Three tasks waiting on one another in processWithLock need
\* one request more than Spec delivers.
MaxWide == MaxReq + 1

Req == 1..MaxWide

\* conversationLocks has no entry for the key
NoTask == 0

\* messageData as produced by WhatsAppService.processIncomingMessage: only
\* the fields the processor reads.  businessId "" stands for an absent one.
\* m1, m2, m3 belong to one conversation, m4 to another.
Envelopes ==
    { [messageId |-> "m1", businessId |-> "", from |-> "s1"],
      [messageId |-> "m2", businessId |-> "", from |-> "s1"],
      [messageId |-> "m3", businessId |-> "", from |-> "s1"],
      [messageId |-> "m4", businessId |-> "", from |-> "s2"] }

NoEnvelope == [messageId |-> "", businessId |-> "", from |-> ""]

MessageIds == { e.messageId : e \in Envelopes }

\* `${messageData.businessId || 'unknown'}:${messageData.from}`
ConversationKey(md) ==
    << IF md.businessId = "" THEN "unknown" ELSE md.businessId, md.from >>

Keys == { ConversationKey(e) : e \in Envelopes }

\* messageData.to of an envelope: the sender "s1" writes to one tenant's
\* number, every other sender to the other tenant's
ToOf(md) == IF md.from = "s1" THEN "p1" ELSE "p2"

\* the emoji of the reactions sent to the inbound message: the hourglass
\* that shows the message is being processed, and "" that removes it
Hourglass == "hourglass"

NoReaction == ""

\* the service module before the first setBusinessConfig
NoConfig == "none"

\* WhatsAppService.setBusinessConfig(whatsappConfig): the module obtained by
\* require("../services/whatsapp") keeps the configuration it is given, for
\* every later sendReaction and sendMessage, which receive no configuration
SetBusinessConfig(md) == ToOf(md)

\* phone number ids of the tenants' channels (messageData.to) and senders
\* (messageData.from)
Channels == {"p1", "p2"}

Senders == {"s1", "s2", "s3"}

\* whatsapp_configs: the business a channel belongs to
BusinessOf(to) == IF to = "p1" THEN "b1" ELSE "b2"

\* messageData with its routing fields.  processMessageFull finds the
\* business from messageData.to (lines 117-131); whether
\* processIncomingMessage also puts a businessId on messageData is its choice
\* (carries).
MessageData(to, from, carries) ==
    [messageId |-> "m1", from |-> from, to |-> to,
     businessId |-> IF carries THEN BusinessOf(to) ELSE ""]

\* res.status(200).send("OK")
OK200 == [status |-> 200, body |-> "OK"]

\* the stages of processMessageFull, one per awaited group of collaborators:
\* the configuration loads, saveMessage of the inbound message, the reply
\* (processText/MediaMessage and its saveMessage), the delivery
\* (sendReaction(.., "") and then sendMessage)
FirstStage == "load"

NextStage(s) ==
    CASE s = "load"        -> "saveMessage"
      [] s = "saveMessage" -> "saveReply"
      [] s = "saveReply"   -> "deliver"
      [] OTHER             -> "end"

\* -------------------------------------------------- config cache data
\* new NodeCache({ stdTTL: 300, ... }): seconds an entry lives
stdTTL == 300

\* Call slots.  Three calls for one key need one call more than SpecCache
\* makes.
MaxManyCalls == MaxCalls + 1

Calls == 1..MaxManyCalls

\* `whatsapp_config:${phoneNumberId}`, `business:${businessId}`,
\* `business_tone:${businessId}`
Namespaces == {"whatsapp_config", "business", "business_tone"}

Ids == {"1"}

CacheKey(ns, id) == << ns, id >>

CacheKeys == { CacheKey(ns, id) : ns \in Namespaces, id \in Ids }

NoKey == << "", "" >>

\* what a fetch function returns when there is no such row (null)
Null == 0

\* cache.get(key) === undefined.  An entry holds its value v, the time t
\* it expires and (for the properties) the time it was stored at and the
\* call that stored it.
NoEntry == [v |-> Null, t |-> -1, at |-> -1, by |-> 0]

\* a getCached* call that has not started
NoCall == [pc |-> "idle", key |-> NoKey, value |-> Null, fetches |-> 0,
           from |-> 0, start |-> 0, stale |-> FALSE]

\* no health response has been sent
NoSnapshot ==
    [status |-> "-",
     cache |-> [hits |-> 0, misses |-> 0, errors |-> 0, keys |-> 0],
     processor |-> [processed |-> 0, duplicates |-> 0, errors |-> 0,
                    currentlyProcessing |-> 0, conversationLocksActive |-> 0]]

VARIABLES
    nreq,                \* number of requests received so far
    env,                 \* env[r]: messageData of request r (NoEnvelope: none)
    pc,                  \* pc[r]: where request r / its background task is
    intake,              \* intake[r]: outcome of the intake handler
    res,                 \* res[r]: responses sent on request r, in order
    processingMessages,  \* Set of message ids
    timer,               \* timer[r]: the setTimeout of markAsProcessing is armed
    conversationLocks,   \* Map key -> task whose promise is stored (0: none)
    waiters,             \* waiters[q]: tasks awaiting q's promise, in order
    immediateQueue,      \* setImmediate callbacks, FIFO
    stage,               \* stage[r]: awaited stage of r's pipeline
    settled,             \* settled[r]: "pending" | "ok" | "failed"
    stats,               \* processed / duplicates / errors
    messages,            \* rows of the messages table
    processing_errors,   \* message id -> retry_count (-1: no row)
    completedCalls,      \* completedCalls[r]: markAsCompleted calls of task r
    expiries,            \* number of marker timers that have fired
    earlier,             \* earlier[r]: same-key tasks that entered
                         \* processWithLock before r and were unsettled
                         \* (kept up to date until r's body begins)
    inCheckAtArrival,    \* same-id requests suspended in the duplicate
                         \* check when request r arrived
    unhandled,           \* tasks whose setImmediate callback rejected
    recorded,            \* tasks whose failure logProcessingError stored
    restarts,            \* number of process restarts so far
    sample,              \* two messageData whose conversation keys are
                         \* derived (<< >>: none)
    derived,             \* the keys derived for sample (<< >>: not yet)
    snapshot,            \* body of the last response of GET /webhook/health
    detached,            \* detached[r]: how the Promise.all of
                         \* markMessageAsRead and sendReaction("⏳") that r's
                         \* pipeline left behind has settled: "ok" | "failed"
                         \* ("-": not yet, or never called)
    businessConfig,      \* the channel whose configuration the WhatsApp
                         \* service module holds (NoConfig: never set)
    reaction,            \* reaction[r]: the reactions WhatsApp has applied to
                         \* r's inbound message, in the order it applied them
    now,                 \* Date.now(), in seconds since the start
    advances,            \* number of times the clock was moved forward
    cache,               \* the NodeCache store: key -> entry (NoEntry: none)
    cacheStats,          \* stats of config-cache.js: hits / misses / errors
    source,              \* source[key]: what the fetch function finds
    updates,             \* number of changes made to source
    ncalls,              \* number of getCached* calls started so far
    call                 \* call[c]: state of the c-th getCached* call

vars == << nreq, env, pc, intake, res, processingMessages, timer,
           conversationLocks, waiters, immediateQueue, stage, settled, stats,
           messages, processing_errors, completedCalls, expiries,
           earlier, inCheckAtArrival, unhandled, recorded, restarts,
           detached, businessConfig, reaction, sample, derived, snapshot,
           now, advances, cache, cacheStats, source, updates, ncalls, call >>

\* the configuration cache and its callers
cacheVars == << now, advances, cache, cacheStats, source, updates, ncalls, call >>

\* the inputs and results of the operations followed on their own
probeVars == << sample, derived, snapshot >>

\* the webhook intake and the message processor
processorVars ==
    << nreq, env, pc, intake, res, processingMessages, timer,
       conversationLocks, waiters, immediateQueue, stage, settled, stats,
       messages, processing_errors, completedCalls, expiries,
       earlier, inCheckAtArrival, unhandled, recorded, restarts, detached,
       businessConfig, reaction >>

\* ------------------------------------------------------------- helpers
Range(s) == { s[i] : i \in 1..Len(s) }

KeyOf(r) == ConversationKey(env[r])

\* processingMessages.add(messageId)
MarkAsProcessing(pm, id) == pm \cup {id}

\* processingMessages.delete(messageId)
MarkAsCompleted(pm, id) == pm \ {id}

\* SELECT id FROM messages WHERE message_id = $1 LIMIT 1  ->  rows.length > 0
InDatabase(rows, id) == \E row \in rows : row.messageId = << "", id >>

\* message_id of a row: << prefix, id >>, the prefix being "" for the inbound
\* message and "ai" for the reply
UserRow(id) == [messageId |-> << "", id >>, isFromUser |-> TRUE]

\* the reply row is saved under `ai_${messageId}_${Date.now()}`
ReplyRow(id) == [messageId |-> << "ai", id >>, isFromUser |-> FALSE]

\* A lock table that is not keyed: any stored promise is awaited.
LockForAnyKey(locks, key) ==
    IF \E k \in Keys : locks[k] # NoTask
      THEN locks[CHOOSE k \in Keys : locks[k] # NoTask]
      ELSE NoTask

\* conversationLocks.has(key) / conversationLocks.get(key)
LockFor(locks, key) == locks[key]

InitProgram ==
    /\ nreq = 0
    /\ env = [r \in Req |-> NoEnvelope]
    /\ pc = [r \in Req |-> "idle"]
    /\ intake = [r \in Req |-> "-"]
    /\ res = [r \in Req |-> << >>]
    /\ processingMessages = {}
    /\ timer = [r \in Req |-> FALSE]
    /\ conversationLocks = [k \in Keys |-> NoTask]
    /\ waiters = [r \in Req |-> << >>]
    /\ immediateQueue = << >>
    /\ stage = [r \in Req |-> "-"]
    /\ settled = [r \in Req |-> "pending"]
    /\ stats = [processed |-> 0, duplicates |-> 0, errors |-> 0]
    /\ messages = {}
    /\ processing_errors = [m \in MessageIds |-> -1]
    /\ completedCalls = [r \in Req |-> 0]
    /\ expiries = 0
    /\ earlier = [r \in Req |-> {}]
    /\ inCheckAtArrival = [r \in Req |-> {}]
    /\ unhandled = {}
    /\ recorded = {}
    /\ restarts = 0
    /\ detached = [r \in Req |-> "-"]
    /\ businessConfig = NoConfig
    /\ reaction = [r \in Req |-> << >>]
    /\ now = 0
    /\ advances = 0
    /\ cache = [k \in CacheKeys |-> NoEntry]
    /\ cacheStats = [hits |-> 0, misses |-> 0, errors |-> 0]
    /\ source = [k \in CacheKeys |-> 1]
    /\ updates = 0
    /\ ncalls = 0
    /\ call = [c \in Calls |-> NoCall]

Init ==
    /\ InitProgram
    /\ sample = << >>
    /\ derived = << >>
    /\ snapshot = NoSnapshot

\* ----------------------------------------------------- intake handler
\* Message ids are opaque to the code (it only compares them), so the ids of
\* one conversation are interchangeable: a delivery carries an id already
\* delivered or the first id of its conversation not delivered yet.
Delivered == { env[r].messageId : r \in 1..nreq }

Predecessor(id) ==
    CASE id = "m2" -> {"m1"}
      [] id = "m3" -> {"m2"}
      [] OTHER     -> {}

Deliverable(e) == Predecessor(e.messageId) \subseteq Delivered

\* What the handler leaves alone when it ends without accepting the event.
IntakeFrame ==
    UNCHANGED << processingMessages, timer, conversationLocks, waiters,
                 immediateQueue, stage, settled, messages, processing_errors,
                 completedCalls, expiries, earlier, unhandled, recorded,
                 restarts, detached, businessConfig, reaction, cacheVars, probeVars >>

\* res.status(200).send("OK") on the paths that return before acceptance
RespondOK(r) == res' = [res EXCEPT ![r] = Append(@, OK200)]

\* A catch that reports the failure to the caller.
IntakeCatchStatus500(r) ==
    res' = [res EXCEPT ![r] = Append(@, [status |-> 500, body |-> "Error"])]

\* catch (error) { res.status(200).send("OK") }
IntakeCatch(r) == res' = [res EXCEPT ![r] = Append(@, OK200)]

\* processIncomingMessage returned nothing: respond and stop.
ReceiveNone(limit) ==
    /\ nreq < limit
    /\ LET r == nreq + 1 IN
        /\ nreq' = r
        /\ RespondOK(r)
        /\ intake' = [intake EXCEPT ![r] = "none"]
        /\ pc' = [pc EXCEPT ![r] = "closed"]
        /\ UNCHANGED << env, stats, inCheckAtArrival >>
        /\ IntakeFrame

\* processIncomingMessage threw: the handler's catch responds.
ReceiveError(limit) ==
    /\ nreq < limit
    /\ LET r == nreq + 1 IN
        /\ nreq' = r
        /\ IntakeCatch(r)
        /\ intake' = [intake EXCEPT ![r] = "error"]
        /\ pc' = [pc EXCEPT ![r] = "closed"]
        /\ UNCHANGED << env, stats, inCheckAtArrival >>
        /\ IntakeFrame

\* isMessageProcessed without the in-memory check: every request is
\* suspended on the query.
ReceiveMessageQueryOnly(limit, redelivery, e) ==
    /\ nreq < limit
    /\ Deliverable(e)
    /\ redelivery \/ e.messageId \notin Delivered
    /\ LET r == nreq + 1 IN
        /\ nreq' = r
        /\ env' = [env EXCEPT ![r] = e]
        /\ pc' = [pc EXCEPT ![r] = "dbcheck"]
        /\ inCheckAtArrival' =
             [inCheckAtArrival EXCEPT ![r] =
                { q \in Req : /\ pc[q] = "dbcheck"
                              /\ env[q].messageId = e.messageId }]
        /\ UNCHANGED << stats, res, intake >>
    /\ IntakeFrame

\* A message was extracted; isMessageProcessed runs up to its database
\* query: a hit in processingMessages answers at once, otherwise the request
\* is suspended on pool.query.
ReceiveMessage(limit, redelivery, e) ==
    /\ nreq < limit
    /\ Deliverable(e)
    /\ redelivery \/ e.messageId \notin Delivered
    /\ LET r == nreq + 1 IN
        /\ nreq' = r
        /\ env' = [env EXCEPT ![r] = e]
        /\ IF e.messageId \in processingMessages
             THEN /\ stats' = [stats EXCEPT !.duplicates = @ + 1]
                  /\ RespondOK(r)
                  /\ intake' = [intake EXCEPT ![r] = "duplicate"]
                  /\ pc' = [pc EXCEPT ![r] = "closed"]
                  /\ UNCHANGED inCheckAtArrival
             ELSE /\ pc' = [pc EXCEPT ![r] = "dbcheck"]
                  /\ inCheckAtArrival' =
                       [inCheckAtArrival EXCEPT ![r] =
                          { q \in Req : /\ pc[q] = "dbcheck"
                                        /\ env[q].messageId = e.messageId }]
                  /\ UNCHANGED << stats, res, intake >>
        /\ IntakeFrame

\* An acceptance that schedules the background work and leaves the response
\* to be sent once that work is over.
AcceptRespondLater(r) ==
    /\ processingMessages' = MarkAsProcessing(processingMessages, env[r].messageId)
    /\ timer' = [timer EXCEPT ![r] = TRUE]
    /\ res' = res
    /\ immediateQueue' = Append(immediateQueue, r)
    /\ intake' = [intake EXCEPT ![r] = "accepted"]
    /\ pc' = [pc EXCEPT ![r] = "immediate"]
    /\ UNCHANGED stats

\* Lines 85-98: markAsProcessing (arms the two-minute timer), the response,
\* then processInBackground, which only schedules the setImmediate callback.
Accept(r) ==
    /\ processingMessages' = MarkAsProcessing(processingMessages, env[r].messageId)
    /\ timer' = [timer EXCEPT ![r] = TRUE]
    /\ res' = [res EXCEPT ![r] = Append(@, OK200)]
    /\ immediateQueue' = Append(immediateQueue, r)
    /\ intake' = [intake EXCEPT ![r] = "accepted"]
    /\ pc' = [pc EXCEPT ![r] = "immediate"]
    /\ UNCHANGED stats

\* A rejection that leaves the duplicates counter alone.
RejectDuplicateUncounted(r) ==
    /\ UNCHANGED stats
    /\ RespondOK(r)
    /\ intake' = [intake EXCEPT ![r] = "duplicate"]
    /\ pc' = [pc EXCEPT ![r] = "closed"]
    /\ UNCHANGED << processingMessages, timer, immediateQueue >>

\* The duplicate found in the database: count it, respond, stop.
RejectDuplicate(r) ==
    /\ stats' = [stats EXCEPT !.duplicates = @ + 1]
    /\ RespondOK(r)
    /\ intake' = [intake EXCEPT ![r] = "duplicate"]
    /\ pc' = [pc EXCEPT ![r] = "closed"]
    /\ UNCHANGED << processingMessages, timer, immediateQueue >>

\* pool.query of isMessageProcessed resolves with the rows it found.
DbCheckReturn(r) ==
    /\ pc[r] = "dbcheck"
    /\ IF InDatabase(messages, env[r].messageId)
         THEN RejectDuplicate(r)
         ELSE Accept(r)
    /\ UNCHANGED << cacheVars, probeVars, detached, businessConfig, reaction, unhandled, recorded, restarts, nreq, env,
                    conversationLocks, waiters, stage, settled,
                    messages, processing_errors, completedCalls, expiries, earlier, inCheckAtArrival >>

\* A catch that answers true: a failed query counts as a duplicate.
DbCheckErrorFailsClosed(r) ==
    /\ pc[r] = "dbcheck"
    /\ RejectDuplicate(r)
    /\ UNCHANGED << cacheVars, probeVars, detached, businessConfig, reaction, unhandled, recorded, restarts, nreq, env,
                    conversationLocks, waiters, stage, settled, messages,
                    processing_errors, completedCalls, expiries, earlier,
                    inCheckAtArrival >>

\* pool.query of isMessageProcessed rejects: the catch answers false.
DbCheckError(r) ==
    /\ pc[r] = "dbcheck"
    /\ Accept(r)
    /\ UNCHANGED << cacheVars, probeVars, detached, businessConfig, reaction, unhandled, recorded, restarts, nreq, env,
                    conversationLocks, waiters, stage, settled,
                    messages, processing_errors, completedCalls, expiries, earlier, inCheckAtArrival >>

\* A timer that spares the marker of a task whose pipeline is still pending.
TimerFireUnlessPending(r) ==
    /\ timer[r]
    /\ expiries < MaxExpiries
    /\ expiries' = expiries + 1
    /\ timer' = [timer EXCEPT ![r] = FALSE]
    /\ processingMessages' =
         IF settled[r] = "pending" /\ pc[r] # "killed"
           THEN processingMessages
           ELSE MarkAsCompleted(processingMessages, env[r].messageId)
    /\ UNCHANGED << cacheVars, probeVars, detached, businessConfig, reaction, unhandled, recorded,
                    restarts, nreq, env, pc, intake, res, conversationLocks,
                    waiters, immediateQueue, stage, settled, stats, messages,
                    processing_errors, completedCalls, earlier,
                    inCheckAtArrival >>

\* setTimeout(() => processingMessages.delete(messageId), 120000)
TimerFire(r) ==
    /\ timer[r]
    /\ expiries < MaxExpiries
    /\ expiries' = expiries + 1
    /\ timer' = [timer EXCEPT ![r] = FALSE]
    /\ processingMessages' = MarkAsCompleted(processingMessages, env[r].messageId)
    /\ UNCHANGED << cacheVars, probeVars, detached, businessConfig, reaction, unhandled, recorded, restarts, nreq, env, pc,
                    intake, res, conversationLocks, waiters,
                    immediateQueue, stage, settled, stats, messages,
                    processing_errors, completedCalls, earlier,
                    inCheckAtArrival >>

\* ------------------------------------------------- processWithLock
\* processingFunction() is called: the pipeline body runs up to its first
\* await, and its promise is stored under the key (lines 848-849).
LocksAfterStart(locks, ws) ==
    [k \in Keys |->
       IF \E i \in 1..Len(ws) : KeyOf(ws[i]) = k
         THEN ws[CHOOSE i \in 1..Len(ws) :
                   /\ KeyOf(ws[i]) = k
                   /\ \A j \in (i+1)..Len(ws) : KeyOf(ws[j]) # k]
         ELSE locks[k]]

\* A callback that, finding the key taken, suspends without registering on
\* the stored promise: nothing wakes it.
RunImmediateLosesWakeup ==
    /\ immediateQueue # << >>
    /\ LET r == Head(immediateQueue)
           q == LockFor(conversationLocks, KeyOf(r))
       IN
        /\ immediateQueue' = Tail(immediateQueue)
        /\ earlier' = [earlier EXCEPT ![r] =
                          { t \in Req : /\ pc[t] \in {"waitlock", "running"}
                                        /\ KeyOf(t) = KeyOf(r) }]
        /\ IF q # NoTask
             THEN /\ pc' = [pc EXCEPT ![r] = "waitlock"]
                  /\ UNCHANGED << conversationLocks, stage, waiters >>
             ELSE /\ pc' = [pc EXCEPT ![r] = "running"]
                  /\ stage' = [stage EXCEPT ![r] = FirstStage]
                  /\ conversationLocks' = LocksAfterStart(conversationLocks, << r >>)
                  /\ UNCHANGED waiters
    /\ UNCHANGED << cacheVars, probeVars, detached, businessConfig, reaction, unhandled, recorded,
                    restarts, nreq, env, intake, res, processingMessages,
                    timer, settled, stats, messages, processing_errors,
                    completedCalls, expiries, inCheckAtArrival >>

\* The setImmediate callback of processInBackground: it enters
\* processWithLock, which either awaits the promise stored under the key or
\* calls the processing function at once.
RunImmediate ==
    /\ immediateQueue # << >>
    /\ LET r == Head(immediateQueue)
           q == LockFor(conversationLocks, KeyOf(r))
       IN
        /\ immediateQueue' = Tail(immediateQueue)
        /\ earlier' = [earlier EXCEPT ![r] =
                          { t \in Req : /\ pc[t] \in {"waitlock", "running"}
                                        /\ KeyOf(t) = KeyOf(r) }]
        /\ IF q # NoTask
             THEN /\ waiters' = [waiters EXCEPT ![q] = Append(@, r)]
                  /\ pc' = [pc EXCEPT ![r] = "waitlock"]
                  /\ UNCHANGED << conversationLocks, stage >>
             ELSE /\ pc' = [pc EXCEPT ![r] = "running"]
                  /\ stage' = [stage EXCEPT ![r] = FirstStage]
                  /\ conversationLocks' = LocksAfterStart(conversationLocks, << r >>)
                  /\ UNCHANGED waiters
    /\ UNCHANGED << cacheVars, probeVars, detached, businessConfig, reaction, unhandled, recorded, restarts, nreq, env,
                    intake, res, processingMessages, timer, settled,
                    stats, messages, processing_errors, completedCalls,
                    expiries, inCheckAtArrival >>

\* A finally that leaves the entry in the map.
ReleaseLockNever(locks, key) == locks

\* conversationLocks.delete(conversationKey) in the finally of processWithLock
ReleaseLock(locks, key) == [locks EXCEPT ![key] = NoTask]

\* The promise of r's pipeline settles.  The promise jobs run in the order
\* they were registered: first r's own processWithLock (counter, finally:
\* delete the key), then every task that awaited r's promise (each calls its
\* processing function and stores its promise), then the continuation of
\* r's processInBackground (success: the finally calls markAsCompleted;
\* failure: the catch calls logProcessingError and is suspended on it).
Settle(r, outcome) ==
    LET ws == waiters[r] IN
    /\ settled' = [settled EXCEPT ![r] = outcome]
    /\ stats' = IF outcome = "ok"
                  THEN [stats EXCEPT !.processed = @ + 1]
                  ELSE [stats EXCEPT !.errors = @ + 1]
    /\ conversationLocks' =
         LocksAfterStart(ReleaseLock(conversationLocks, KeyOf(r)), ws)
    /\ waiters' = [waiters EXCEPT ![r] = << >>]
    /\ earlier' = [t \in Req |->
                     IF pc[t] = "waitlock" THEN earlier[t] \ {r} ELSE earlier[t]]
    /\ stage' = [t \in Req |->
                   IF t \in Range(ws) THEN FirstStage
                   ELSE IF t = r THEN "end" ELSE stage[t]]
    /\ pc' = [t \in Req |->
                IF t \in Range(ws) THEN "running"
                ELSE IF t = r
                  THEN (IF outcome = "ok" THEN "done" ELSE "logerr")
                  ELSE pc[t]]
    /\ IF outcome = "ok"
         THEN /\ processingMessages' =
                   MarkAsCompleted(processingMessages, env[r].messageId)
              /\ completedCalls' = [completedCalls EXCEPT ![r] = @ + 1]
         ELSE UNCHANGED << processingMessages, completedCalls >>

\* ------------------------------------------------- processMessageFull
\* An awaited stage resolves and the body goes on to its next await.
\* saveMessage stages insert their row.  When the configuration is loaded
\* the body calls markMessageAsRead and sendReaction("⏳") and leaves their
\* Promise.all behind with a catch that logs (lines 162-167): see
\* DetachedSettle.
PipelineAdvanceWith(r, followed) ==
    /\ pc[r] = "running"
    /\ stage[r] \in {"load", "saveMessage", "saveReply"}
    /\ stage' = [stage EXCEPT ![r] = NextStage(@)]
    /\ messages' =
         CASE stage[r] = "saveMessage" -> messages \cup {UserRow(env[r].messageId)}
           [] stage[r] = "saveReply"   -> messages \cup {ReplyRow(env[r].messageId)}
           [] OTHER                    -> messages
    /\ businessConfig' =
         IF followed /\ stage[r] = "load"
           THEN SetBusinessConfig(env[r]) ELSE businessConfig
    /\ UNCHANGED << cacheVars, probeVars, detached, reaction, unhandled, recorded, restarts, nreq, env, pc,
                    intake, res, processingMessages, timer,
                    conversationLocks, waiters, immediateQueue, settled, stats,
                    processing_errors, completedCalls, expiries,
                    earlier, inCheckAtArrival >>

\* the same step where the service module's configuration is not followed
PipelineAdvance(r) == PipelineAdvanceWith(r, FALSE)

\* the same step with WhatsAppService.setBusinessConfig(whatsappConfig)
\* followed: the configuration loaded for messageData.to replaces the one
\* the module held
PipelineAdvanceConfiguring(r) == PipelineAdvanceWith(r, TRUE)

\* The body returns: after the reply was delivered, or early when no
\* configuration / no business / an inactive business was loaded.
PipelineReturn(r) ==
    /\ pc[r] = "running"
    /\ stage[r] \in {"load", "deliver"}
    /\ Settle(r, "ok")
    /\ UNCHANGED << cacheVars, probeVars, detached, businessConfig, reaction, unhandled, recorded, restarts, nreq, env,
                    intake, res, timer, immediateQueue, messages,
                    processing_errors, expiries, inCheckAtArrival >>

\* An awaited collaborator rejects: the body's catch rethrows.
PipelineThrow(r) ==
    /\ pc[r] = "running"
    /\ stats.errors < MaxFailures
    /\ Settle(r, "failed")
    /\ UNCHANGED << cacheVars, probeVars, detached, businessConfig, reaction, unhandled, recorded, restarts, nreq, env,
                    intake, res, timer, immediateQueue, messages,
                    processing_errors, expiries, inCheckAtArrival >>

\* await WhatsAppService.sendReaction(from, messageId, "") rejects (line
\* 217, the first await of the delivery, inside the body's try): the catch
\* rethrows and sendMessage is not called.
ReactionClearThrow(r) ==
    /\ pc[r] = "running"
    /\ stage[r] = "deliver"
    /\ stats.errors < MaxFailures
    /\ Settle(r, "failed")
    /\ UNCHANGED << cacheVars, probeVars, detached, businessConfig, reaction, unhandled, recorded, restarts, nreq,
                    env, intake, res, timer, immediateQueue, messages,
                    processing_errors, expiries, inCheckAtArrival >>

\* The detached Promise.all([markMessageAsRead, sendReaction("⏳")]) settles;
\* a rejection reaches its .catch, which logs it.  The calls are outstanding
\* from the moment the configuration is loaded; they are followed while the
\* body that made them runs.
DetachedSettle(r, ok) ==
    /\ pc[r] = "running"
    /\ stage[r] \in {"saveMessage", "saveReply", "deliver"}
    /\ detached[r] = "-"
    /\ detached' = [detached EXCEPT ![r] = IF ok THEN "ok" ELSE "failed"]
    /\ UNCHANGED << cacheVars, probeVars, businessConfig, reaction, unhandled, recorded, restarts, nreq, env, pc,
                    intake, res, processingMessages, timer,
                    conversationLocks, waiters, immediateQueue, stage,
                    settled, stats, messages, processing_errors,
                    completedCalls, expiries, earlier, inCheckAtArrival >>

\* The request of the detached sendReaction(from, messageId, "⏳") (line 164)
\* reaches WhatsApp, which shows the hourglass on the inbound message.  The
\* call was made when the configuration was loaded and its promise is not
\* awaited, so this happens at any time while the promise is pending.
ReactionSetLands(r) ==
    /\ pc[r] = "running"
    /\ stage[r] \in {"saveMessage", "saveReply", "deliver"}
    /\ detached[r] = "-"
    /\ Hourglass \notin Range(reaction[r])
    /\ reaction' = [reaction EXCEPT ![r] = Append(@, Hourglass)]
    /\ UNCHANGED << cacheVars, probeVars, detached, businessConfig,
                    unhandled, recorded, restarts, nreq, env, pc,
                    intake, res, processingMessages, timer,
                    conversationLocks, waiters, immediateQueue, stage,
                    settled, stats, messages, processing_errors,
                    completedCalls, expiries, earlier, inCheckAtArrival >>

\* The request of the awaited sendReaction(from, messageId, "") (line 217)
\* reaches WhatsApp, which removes the reaction from the inbound message.
ReactionClearLands(r) ==
    /\ pc[r] = "running"
    /\ stage[r] = "deliver"
    /\ NoReaction \notin Range(reaction[r])
    /\ reaction' = [reaction EXCEPT ![r] = Append(@, NoReaction)]
    /\ UNCHANGED << cacheVars, probeVars, detached, businessConfig,
                    unhandled, recorded, restarts, nreq, env, pc,
                    intake, res, processingMessages, timer,
                    conversationLocks, waiters, immediateQueue, stage,
                    settled, stats, messages, processing_errors,
                    completedCalls, expiries, earlier, inCheckAtArrival >>

\* The detached promise settles: resolved once the hourglass was applied,
\* rejected when the request failed.
DetachedSettleApplied(r, ok) ==
    /\ ok <=> Hourglass \in Range(reaction[r])
    /\ DetachedSettle(r, ok)

\* The body returns: an early return, or the end of the delivery, whose
\* awaited sendReaction(from, messageId, "") resolved after WhatsApp
\* applied it.
PipelineReturnDelivered(r) ==
    /\ stage[r] = "deliver" => NoReaction \in Range(reaction[r])
    /\ PipelineReturn(r)

\* ------------------------------------------------- processInBackground
\* An upsert that resets the counter on conflict instead of adding one.
UpsertOverwrite(table, id) == [table EXCEPT ![id] = 0]

\* INSERT INTO processing_errors ... ON CONFLICT (message_id) DO UPDATE SET
\* retry_count = processing_errors.retry_count + 1; a new row gets the
\* column's DEFAULT 0.  message_id is UNIQUE: one row per id at most.
Upsert(table, id) == [table EXCEPT ![id] = IF @ = -1 THEN 0 ELSE @ + 1]

\* A logging failure that leaves the catch block of the callback.
AfterLogErrorRethrow(ok) == IF ok THEN "notify" ELSE "throw"

\* Where the callback goes when logProcessingError has settled: its own catch
\* swallows a storage error and the try/catch around the call would swallow
\* a rejection, so sendErrorNotification is called next in either case.
AfterLogError(ok) == "notify"

\* A delivery failure that leaves the catch block of the callback.
AfterNotifyRethrow(ok) == IF ok THEN "finally" ELSE "throw"

\* Where the callback goes when sendErrorNotification has settled: its own
\* catch swallows a delivery error and the try/catch around the call would
\* swallow a rejection, so the catch block ends normally.
AfterNotify(ok) == "finally"

\* markAsCompleted placed after the try block's success path only: the error
\* path ends without it.
FinallySkipped(r) ==
    /\ pc' = [pc EXCEPT ![r] = "done"]
    /\ UNCHANGED << processingMessages, completedCalls >>

\* finally { markAsCompleted(messageData.messageId) }
Finally(r) ==
    /\ processingMessages' = MarkAsCompleted(processingMessages, env[r].messageId)
    /\ completedCalls' = [completedCalls EXCEPT ![r] = @ + 1]
    /\ pc' = [pc EXCEPT ![r] = "done"]

\* logProcessingError settles.  ok: the upsert ran; otherwise the storage
\* error was swallowed.  sendErrorNotification is called next.  (An error
\* thrown out of the catch block would run the finally and reject the
\* callback's promise.)
LogErrorReturn(r, ok) ==
    /\ pc[r] = "logerr"
    /\ processing_errors' =
         IF ok THEN Upsert(processing_errors, env[r].messageId)
               ELSE processing_errors
    /\ recorded' = IF ok THEN recorded \cup {r} ELSE recorded
    /\ IF AfterLogError(ok) = "notify"
         THEN /\ pc' = [pc EXCEPT ![r] = "notify"]
              /\ UNCHANGED << processingMessages, completedCalls, unhandled >>
         ELSE /\ Finally(r)
              /\ unhandled' = unhandled \cup {r}
    /\ UNCHANGED << cacheVars, probeVars, detached, businessConfig, reaction, restarts, nreq, env, intake, res, timer,
                    conversationLocks, waiters, immediateQueue, stage, settled,
                    stats, messages, expiries, earlier, inCheckAtArrival >>

\* A callback that reports again when the notification could not be
\* delivered: it goes back to logProcessingError.
NotifyReturnReportsAgain(r, ok) ==
    /\ pc[r] = "notify"
    /\ IF ok THEN Finally(r)
             ELSE /\ pc' = [pc EXCEPT ![r] = "logerr"]
                  /\ UNCHANGED << processingMessages, completedCalls >>
    /\ UNCHANGED << cacheVars, probeVars, detached, businessConfig, reaction, restarts, nreq, env,
                    intake, res, timer, conversationLocks, waiters,
                    immediateQueue, stage, settled, stats, messages,
                    processing_errors, recorded, expiries, earlier,
                    inCheckAtArrival, unhandled >>

\* sendErrorNotification settles (ok: the apology was delivered); the
\* finally of processInBackground runs.
NotifyReturn(r, ok) ==
    /\ pc[r] = "notify"
    /\ Finally(r)
    /\ unhandled' = IF AfterNotify(ok) = "throw" THEN unhandled \cup {r}
                                                ELSE unhandled
    /\ UNCHANGED << cacheVars, probeVars, detached, businessConfig, reaction, restarts, nreq, env, intake, res, timer,
                    conversationLocks,
                    waiters, immediateQueue, stage, settled, stats, messages,
                    processing_errors, recorded, expiries, earlier,
                    inCheckAtArrival >>

\* ------------------------------------------------------ process restart
\* The process stops and is started again: the module-level state of the
\* processor is built anew (empty marker set and lock map, counters at 0),
\* timers, queued callbacks, suspended requests and running pipelines are
\* gone, and with them who waited for whom; the database tables survive.
Restart ==
    /\ restarts < MaxRestarts
    /\ nreq > 0
    /\ restarts' = restarts + 1
    /\ processingMessages' = {}
    /\ conversationLocks' = [k \in Keys |-> NoTask]
    /\ stats' = [processed |-> 0, duplicates |-> 0, errors |-> 0]
    /\ timer' = [r \in Req |-> FALSE]
    /\ immediateQueue' = << >>
    /\ waiters' = [r \in Req |-> << >>]
    /\ pc' = [r \in Req |->
                IF pc[r] \in {"idle", "closed", "done"} THEN pc[r] ELSE "killed"]
    /\ cache' = [k \in CacheKeys |-> NoEntry]
    /\ cacheStats' = [hits |-> 0, misses |-> 0, errors |-> 0]
    /\ call' = [c \in Calls |->
                  IF call[c].pc \in {"fetch", "fallback"}
                    THEN [call[c] EXCEPT !.pc = "killed"] ELSE call[c]]
    /\ stage' = [r \in Req |->
                   IF pc[r] \in {"idle", "closed", "done"} THEN stage[r] ELSE "-"]
    /\ earlier' = [r \in Req |-> {}]
    /\ inCheckAtArrival' = [r \in Req |-> {}]
    /\ businessConfig' = NoConfig
    /\ UNCHANGED << nreq, env, intake, res, settled, messages, detached,
                    reaction, probeVars,
                    processing_errors, completedCalls, expiries,
                    unhandled, recorded,
                    now, advances, source, updates, ncalls >>

\* A redelivered message whose pipeline failed before fails again.
PipelineThrowAgain(r) ==
    /\ pc[r] = "running"
    /\ stats.errors < MaxFailures + 1
    /\ \E q \in Req : /\ q # r
                      /\ env[q].messageId = env[r].messageId
                      /\ settled[q] = "failed"
    /\ Settle(r, "failed")
    /\ UNCHANGED << cacheVars, probeVars, detached, businessConfig, reaction, unhandled, recorded, restarts, nreq, env,
                    intake, res,
                    timer, immediateQueue, messages, processing_errors,
                    expiries, inCheckAtArrival >>

\* ------------------------------------------------------- config cache
\* An entry that never expires.
ExpiredNever(entry, time) == FALSE

\* NodeCache: an entry set at time s carries t = s + stdTTL and is expired
\* once t < Date.now()
Expired(entry, time) == entry.t < time

\* cache.get(key): the entry, or NoEntry (undefined) when there is none or it
\* has expired
CacheGet(store, key, time) ==
    IF store[key] # NoEntry /\ ~ Expired(store[key], time)
      THEN store[key] ELSE NoEntry

\* cache.get deletes the expired entry it finds
AfterGet(store, key, time) ==
    IF store[key] # NoEntry /\ Expired(store[key], time)
      THEN [store EXCEPT ![key] = NoEntry] ELSE store

\* cache.set(key, value) by call c
CacheSet(store, key, v, c, time) ==
    [store EXCEPT ![key] =
        [v |-> v, t |-> time + stdTTL, at |-> time, by |-> c]]

\* cache.del(key) for each of the keys
CacheDel(store, keys) ==
    [k \in CacheKeys |-> IF k \in keys THEN NoEntry ELSE store[k]]

\* if (config): null is not stored
Truthy(v) == v # Null

\* getCachedWhatsAppConfig / getCachedBusiness / getCachedBusinessTone up to
\* the first await: a hit returns the entry, a miss calls the fetch function.
GetCached(limit, ns, id) ==
    /\ ncalls < limit
    /\ LET c == ncalls + 1
           key == CacheKey(ns, id)
           cached == CacheGet(cache, key, now)
       IN
        /\ ncalls' = c
        /\ cache' = AfterGet(cache, key, now)
        /\ IF cached # NoEntry
             THEN /\ cacheStats' = [cacheStats EXCEPT !.hits = @ + 1]
                  /\ call' = [call EXCEPT ![c] =
                        [pc |-> "returned", key |-> key, value |-> cached.v,
                         fetches |-> 0, from |-> cached.by, start |-> now,
                         stale |-> FALSE]]
             ELSE /\ cacheStats' = [cacheStats EXCEPT !.misses = @ + 1]
                  /\ call' = [call EXCEPT ![c] =
                        [pc |-> "fetch", key |-> key, value |-> Null,
                         fetches |-> 1, from |-> 0, start |-> now,
                         stale |-> FALSE]]
    /\ UNCHANGED << now, advances, source, updates, processorVars, probeVars >>

\* The awaited fetch function resolves: a truthy result is stored, and the
\* result is returned.
FetchReturn(c) ==
    /\ call[c].pc = "fetch"
    /\ LET config == source[call[c].key] IN
        /\ cache' = IF Truthy(config)
                      THEN CacheSet(cache, call[c].key, config, c, now)
                      ELSE cache
        /\ call' = [call EXCEPT ![c].pc = "returned", ![c].value = config]
    /\ UNCHANGED << now, advances, cacheStats, source, updates, ncalls,
                    processorVars, probeVars >>

\* A catch that falls back without counting the error.
FetchThrowUncounted(c) ==
    /\ call[c].pc = "fetch"
    /\ call' = [call EXCEPT ![c].pc = "fallback", ![c].fetches = @ + 1]
    /\ UNCHANGED << now, advances, cache, cacheStats, source, updates, ncalls,
                    processorVars, probeVars >>

\* The awaited fetch function rejects: the catch counts an error and calls
\* the fetch function again ("Fallback to direct fetch").
FetchThrow(c) ==
    /\ call[c].pc = "fetch"
    /\ cacheStats' = [cacheStats EXCEPT !.errors = @ + 1]
    /\ call' = [call EXCEPT ![c].pc = "fallback", ![c].fetches = @ + 1]
    /\ UNCHANGED << now, advances, cache, source, updates, ncalls,
                    processorVars, probeVars >>

\* The fallback fetch resolves: its result is returned and not stored.
FallbackReturn(c) ==
    /\ call[c].pc = "fallback"
    /\ call' = [call EXCEPT ![c].pc = "returned",
                            ![c].value = source[call[c].key]]
    /\ UNCHANGED << now, advances, cache, cacheStats, source, updates, ncalls,
                    processorVars, probeVars >>

\* The fallback fetch rejects: the call rejects with that error.
FallbackThrow(c) ==
    /\ call[c].pc = "fallback"
    /\ call' = [call EXCEPT ![c].pc = "failed"]
    /\ UNCHANGED << now, advances, cache, cacheStats, source, updates, ncalls,
                    processorVars, probeVars >>

\* The calls whose fetch is in flight for one of the invalidated keys are
\* marked: what they fetch was asked for before the invalidation.
MarkStale(keys) ==
    [c \in Calls |->
       IF call[c].pc \in {"fetch", "fallback"} /\ call[c].key \in keys
         THEN [call[c] EXCEPT !.stale = TRUE] ELSE call[c]]

\* invalidateBusinessCache(businessId)
InvalidateBusinessCache(id) ==
    LET keys == {CacheKey("business", id), CacheKey("business_tone", id)} IN
    /\ cache' = CacheDel(cache, keys)
    /\ call' = MarkStale(keys)
    /\ UNCHANGED << now, advances, cacheStats, source, updates, ncalls,
                    processorVars, probeVars >>

\* invalidateWhatsAppConfig(phoneNumberId)
InvalidateWhatsAppConfig(id) ==
    LET keys == {CacheKey("whatsapp_config", id)} IN
    /\ cache' = CacheDel(cache, keys)
    /\ call' = MarkStale(keys)
    /\ UNCHANGED << now, advances, cacheStats, source, updates, ncalls,
                    processorVars, probeVars >>

\* clearCache(): cache.flushAll()
ClearCache ==
    /\ cache' = CacheDel(cache, CacheKeys)
    /\ UNCHANGED << now, advances, cacheStats, source, updates, ncalls, call,
                    processorVars, probeVars >>

\* The periodic check of NodeCache (checkperiod) deletes expired entries.
CacheSweep ==
    /\ \E k \in CacheKeys : cache[k] # NoEntry /\ Expired(cache[k], now)
    /\ cache' = [k \in CacheKeys |->
                   IF cache[k] # NoEntry /\ Expired(cache[k], now)
                     THEN NoEntry ELSE cache[k]]
    /\ UNCHANGED << now, advances, cacheStats, source, updates, ncalls, call,
                    processorVars, probeVars >>

\* The row a fetch function reads is changed (v) or deleted (Null).
UpdateSource(key, v) ==
    /\ updates < MaxUpdates
    /\ v # source[key]
    /\ updates' = updates + 1
    /\ source' = [source EXCEPT ![key] = v]
    /\ UNCHANGED << now, advances, cache, cacheStats, ncalls, call,
                    processorVars, probeVars >>

\* Time passes: one second, or the lifetime of an entry.
Advance(d) ==
    /\ advances < MaxAdvances
    /\ advances' = advances + 1
    /\ now' = now + d
    /\ UNCHANGED << cache, cacheStats, source, updates, ncalls, call,
                    processorVars, probeVars >>

\* --------------------------------------------------- introspection
\* getStats(): the counters, processingMessages.size, conversationLocks.size
\* (uptime and messagesPerMinute, computed from the clock and the same
\* counters, are left out)
GetStats ==
    [processed |-> stats.processed, duplicates |-> stats.duplicates,
     errors |-> stats.errors,
     currentlyProcessing |-> Cardinality(processingMessages),
     conversationLocksActive |->
        Cardinality({ k \in Keys : conversationLocks[k] # NoTask })]

\* getCacheStats(): the counters and cache.keys().length (hitRate, computed
\* from the counters, and NodeCache's own getStats() are left out)
GetCacheStats ==
    [hits |-> cacheStats.hits, misses |-> cacheStats.misses,
     errors |-> cacheStats.errors,
     keys |-> Cardinality({ k \in CacheKeys : cache[k] # NoEntry })]

\* A read that starts a new counting period: the counters are set to zero.
GetHealthAndReset ==
    /\ snapshot' = [status |-> "healthy", cache |-> GetCacheStats,
                    processor |-> GetStats]
    /\ stats' = [processed |-> 0, duplicates |-> 0, errors |-> 0]
    /\ UNCHANGED << nreq, env, pc, intake, res, processingMessages, timer,
                    conversationLocks, waiters, immediateQueue, stage,
                    settled, messages, processing_errors, completedCalls,
                    expiries, earlier, inCheckAtArrival, unhandled, recorded,
                    restarts, detached, businessConfig, reaction, cacheVars, sample, derived >>

\* GET /webhook/health: res.json({status, cache, processor, timestamp})
GetHealth ==
    /\ snapshot' = [status |-> "healthy", cache |-> GetCacheStats,
                    processor |-> GetStats]
    /\ UNCHANGED << processorVars, cacheVars, sample, derived >>

\* no health response is being sent
ResponseGone == snapshot = NoSnapshot

\* The response has been sent; what follows no longer has it.
HealthResponseSent ==
    /\ snapshot # NoSnapshot
    /\ snapshot' = NoSnapshot
    /\ UNCHANGED << processorVars, cacheVars, sample, derived >>

\* ------------------------------------------------ conversation keys
\* processInBackground derives the key of each of the two messageData.
DeriveKeys ==
    /\ sample # << >>
    /\ derived = << >>
    /\ derived' = << ConversationKey(sample[1]), ConversationKey(sample[2]) >>
    /\ UNCHANGED << sample, snapshot, processorVars, cacheVars >>

\* ------------------------------------------------------ specification
\* limit: the number of requests delivered; redelivery: whether the sender
\* (WhatsApp) delivers an id more than once.
NextWithin(limit, redelivery) ==
    \/ ReceiveNone(limit)
    \/ ReceiveError(limit)
    \/ \E e \in Envelopes : ReceiveMessage(limit, redelivery, e)
    \/ \E r \in Req : DbCheckReturn(r)
    \/ \E r \in Req : DbCheckError(r)
    \/ \E r \in Req : TimerFire(r)
    \/ RunImmediate
    \/ \E r \in Req : PipelineAdvance(r)
    \/ \E r \in Req : PipelineReturn(r)
    \/ \E r \in Req : PipelineThrow(r)
    \/ \E r \in Req, ok \in BOOLEAN : LogErrorReturn(r, ok)
    \/ \E r \in Req, ok \in BOOLEAN : NotifyReturn(r, ok)

Next == NextWithin(MaxReq, TRUE)

NextWide == NextWithin(MaxWide, TRUE)

NextNewMessages == NextWithin(MaxWide, FALSE)

\* MaxReq requests
Spec == Init /\ [][Next]_vars

\* MaxReq + 1 requests
SpecWide == Init /\ [][NextWide]_vars

\* MaxReq + 1 requests, every one a message not delivered before
SpecNewMessages == Init /\ [][NextNewMessages]_vars

\* two messages of one conversation, delivered again and again
RetryEnvelopes == { e \in Envelopes : e.messageId \in {"m1", "m2"} }

NextRetry ==
    \/ \E e \in RetryEnvelopes : ReceiveMessage(MaxReq, TRUE, e)
    \/ \E r \in Req : DbCheckReturn(r)
    \/ \E r \in Req : DbCheckError(r)
    \/ \E r \in Req : TimerFire(r)
    \/ RunImmediate
    \/ \E r \in Req : PipelineAdvance(r)
    \/ \E r \in Req : PipelineReturn(r)
    \/ \E r \in Req : PipelineThrow(r)
    \/ \E r \in Req : PipelineThrowAgain(r)
    \/ \E r \in Req, ok \in BOOLEAN : LogErrorReturn(r, ok)
    \/ \E r \in Req, ok \in BOOLEAN : NotifyReturn(r, ok)

\* MaxReq deliveries of two messages of one conversation; a redelivered
\* message may fail once more
SpecRetry == Init /\ [][NextRetry]_vars

NextRestart ==
    \/ ReceiveNone(MaxReq)
    \/ ReceiveError(MaxReq)
    \/ \E e \in Envelopes : ReceiveMessage(MaxReq, TRUE, e)
    \/ \E r \in Req : DbCheckReturn(r)
    \/ \E r \in Req : DbCheckError(r)
    \/ \E r \in Req : TimerFire(r)
    \/ RunImmediate
    \/ \E r \in Req : PipelineAdvance(r)
    \/ \E r \in Req : PipelineReturn(r)
    \/ Restart

\* MaxReq requests whose pipelines do not fail, with process restarts
SpecRestart == Init /\ [][NextRestart]_vars

\* MaxCalls + 1 calls that find their row; nothing is invalidated or changed
\* and no time passes
NextCacheLoads ==
    \/ \E ns \in Namespaces, id \in Ids : GetCached(MaxManyCalls, ns, id)
    \/ \E c \in Calls : FetchReturn(c)

SpecCacheLoads == Init /\ [][NextCacheLoads]_vars

NextCache ==
    \/ \E ns \in Namespaces, id \in Ids : GetCached(MaxCalls, ns, id)
    \/ \E c \in Calls : FetchReturn(c)
    \/ \E c \in Calls : FetchThrow(c)
    \/ \E c \in Calls : FallbackReturn(c)
    \/ \E c \in Calls : FallbackThrow(c)
    \/ \E id \in Ids : InvalidateBusinessCache(id)
    \/ \E id \in Ids : InvalidateWhatsAppConfig(id)
    \/ ClearCache
    \/ \E k \in CacheKeys, v \in {Null, 2} : UpdateSource(k, v)

\* MaxCalls calls, their fetches failing or not, with invalidations and
\* changes of the rows; no time passes
SpecCache == Init /\ [][NextCache]_vars

NextCacheTime ==
    \/ \E ns \in Namespaces, id \in Ids : GetCached(MaxCalls, ns, id)
    \/ \E c \in Calls : FetchReturn(c)
    \/ CacheSweep
    \/ \E d \in {1, stdTTL} : Advance(d)

\* MaxCalls calls that find their row, while time passes
SpecCacheTime == Init /\ [][NextCacheTime]_vars

NextIndicatorsFail ==
    \/ \E e \in Envelopes : ReceiveMessage(MaxReq, TRUE, e)
    \/ \E r \in Req : DbCheckReturn(r)
    \/ RunImmediate
    \/ \E r \in Req : PipelineAdvance(r)
    \/ \E r \in Req : stage[r] = "load" /\ PipelineReturn(r)
    \/ \E r \in Req : DetachedSettle(r, FALSE)
    \/ \E r \in Req : ReactionClearThrow(r)
    \/ \E r \in Req : LogErrorReturn(r, TRUE)
    \/ \E r \in Req : NotifyReturn(r, TRUE)

\* MaxReq requests; every markMessageAsRead and sendReaction call rejects and
\* every other collaborator succeeds (a pipeline returns early or reaches
\* its delivery)
SpecIndicatorsFail == Init /\ [][NextIndicatorsFail]_vars

\* two messageData of one process (which either carries business ids or
\* does not), any channels and senders
InitKeys ==
    /\ InitProgram
    /\ \E carries \in BOOLEAN :
          sample \in { << MessageData(t1, f1, carries), MessageData(t2, f2, carries) >> :
                          t1 \in Channels, f1 \in Senders,
                          t2 \in Channels, f2 \in Senders }
    /\ derived = << >>
    /\ snapshot = NoSnapshot

NextKeys == DeriveKeys

SpecKeys == InitKeys /\ [][NextKeys]_vars

\* one request fewer than Spec delivers, one call fewer than SpecCache makes
FewReq == MaxReq - 1

FewCalls == MaxCalls - 1

NextHealth ==
    \/ \E e \in Envelopes : ResponseGone /\ ReceiveMessage(FewReq, TRUE, e)
    \/ \E r \in Req : ResponseGone /\ DbCheckReturn(r)
    \/ ResponseGone /\ RunImmediate
    \/ \E r \in Req : ResponseGone /\ PipelineAdvance(r)
    \/ \E r \in Req : ResponseGone /\ PipelineReturn(r)
    \/ \E r \in Req : ResponseGone /\ PipelineThrow(r)
    \/ \E r \in Req, ok \in BOOLEAN : ResponseGone /\ LogErrorReturn(r, ok)
    \/ \E r \in Req, ok \in BOOLEAN : ResponseGone /\ NotifyReturn(r, ok)
    \/ \E ns \in Namespaces, id \in Ids :
          ResponseGone /\ GetCached(FewCalls, ns, id)
    \/ \E c \in Calls : ResponseGone /\ FetchReturn(c)
    \/ \E c \in Calls : ResponseGone /\ FetchThrow(c)
    \/ \E c \in Calls : ResponseGone /\ FallbackReturn(c)
    \/ GetHealth
    \/ HealthResponseSent

\* FewReq requests and FewCalls cache calls; between any two of their steps
\* the health endpoint may be read
SpecHealth == Init /\ [][NextHealth]_vars

\* the webhook payloads of one conversation: same sender, same business
OneConversation == {e \in Envelopes : ConversationKey(e) = << "unknown", "s1" >>}

NextLive ==
    \/ \E e \in OneConversation : ReceiveMessage(MaxWide, FALSE, e)
    \/ \E r \in Req : DbCheckReturn(r)
    \/ RunImmediate
    \/ \E r \in Req : PipelineAdvance(r)
    \/ \E r \in Req : PipelineReturn(r)
    \/ \E r \in Req : PipelineThrow(r)
    \/ \E r \in Req, ok \in BOOLEAN : LogErrorReturn(r, ok)
    \/ \E r \in Req, ok \in BOOLEAN : NotifyReturn(r, ok)

\* The event loop runs every callback that is ready, and every awaited
\* collaborator settles: a queued setImmediate callback runs, an awaited
\* stage resolves (or rejects), a body at its last await returns,
\* logProcessingError and sendErrorNotification settle.
FairLive ==
    /\ WF_vars(RunImmediate)
    /\ \A r \in Req :
          /\ WF_vars(PipelineAdvance(r))
          /\ WF_vars(PipelineReturn(r))
          /\ WF_vars(\E ok \in BOOLEAN : LogErrorReturn(r, ok))
          /\ WF_vars(\E ok \in BOOLEAN : NotifyReturn(r, ok))

\* MaxReq + 1 new messages of one conversation, under fair scheduling of the
\* event loop
SpecLive == Init /\ [][NextLive]_vars /\ FairLive

NextChannels ==
    \/ \E e \in Envelopes : ReceiveMessage(MaxReq, FALSE, e)
    \/ \E r \in Req : DbCheckReturn(r)
    \/ RunImmediate
    \/ \E r \in Req : PipelineAdvanceConfiguring(r)
    \/ \E r \in Req : PipelineReturn(r)
    \/ \E r \in Req : PipelineThrow(r)
    \/ \E r \in Req, ok \in BOOLEAN : LogErrorReturn(r, ok)
    \/ \E r \in Req, ok \in BOOLEAN : NotifyReturn(r, ok)

\* MaxReq new messages, to one tenant's number or the other's, with the
\* configuration held by the WhatsApp service module followed
SpecChannels == Init /\ [][NextChannels]_vars

NextReactions ==
    \/ \E e \in Envelopes : ReceiveMessage(MaxReq, FALSE, e)
    \/ \E r \in Req : DbCheckReturn(r)
    \/ RunImmediate
    \/ \E r \in Req : PipelineAdvance(r)
    \/ \E r \in Req : PipelineReturnDelivered(r)
    \/ \E r \in Req : ReactionSetLands(r)
    \/ \E r \in Req : ReactionClearLands(r)
    \/ \E r \in Req, ok \in BOOLEAN : DetachedSettleApplied(r, ok)

\* MaxReq new messages whose pipelines succeed, with the reactions WhatsApp
\* applies to the inbound messages followed
SpecReactions == Init /\ [][NextReactions]_vars

\* ------------------------------------------------------------ claims
SameId(r, s) == env[r].messageId = env[s].messageId

SameKey(r, s) == KeyOf(r) = KeyOf(s)

Accepted(r) == intake[r] = "accepted"

\* r's pipeline body has begun (processingFunction was called)
Started(r) == pc[r] \in {"running", "logerr", "notify", "done"}

\* r's pipeline body has begun and its promise is pending
InFlight(r) == pc[r] = "running"

\* r's setImmediate callback is scheduled or has run
InBackground(r) ==
    pc[r] \in {"immediate", "waitlock", "running", "logerr", "notify", "done"}

HasRows(r) ==
    {UserRow(env[r].messageId), ReplyRow(env[r].messageId)} \subseteq messages

\* C1: of two requests with the same external id, the second arriving while
\* the first is suspended in isMessageProcessed, at most one is accepted and
\* handed to processInBackground.
C1_ConcurrentDuplicateStartsOnce ==
    \A s \in Req : \A r \in inCheckAtArrival[s] :
        ~ (Accepted(r) /\ Accepted(s))

\* C2: at most one pipeline execution is in flight for any external id.
C2_OneInFlightPerId ==
    \A r, s \in Req :
        (r # s /\ SameId(r, s)) => ~ (InFlight(r) /\ InFlight(s))

\* C3: a task's body begins only after every task enqueued earlier under the
\* same key has settled (enqueue order, no overlap).
C3_SameKeyTasksSerialized ==
    \A b \in Req : Started(b) => earlier[b] = {}

\* C4: when B's body begins, the message row and the reply row of every task
\* submitted earlier under the same key are persisted.
C4_EarlierRowsPersistedFirst ==
    \A b \in Req : Started(b) => \A a \in earlier[b] : HasRows(a)

\* C5: of two events of one conversation, the one whose intake request began
\* first has its pipeline started first.
C5_PipelinesStartInArrivalOrder ==
    \A r, s \in Req :
        (r < s /\ SameKey(r, s) /\ Accepted(r) /\ Started(s)) => Started(r)

\* C6: once an event's background work is scheduled the response has been
\* sent, and it is the one 200 OK whatever the background work does.
C6_AckBeforeBackground ==
    \A r \in Req : InBackground(r) => res[r] = << OK200 >>

C6_Witness ==
    \E r \in Req : pc[r] = "logerr" /\ res[r] = << OK200 >>

\* C7: a request is answered at most once; when its intake has ended (none,
\* duplicate, accepted, error) it has been answered exactly once, with 200 OK.
C7_AcknowledgedExactlyOnce ==
    \A r \in Req :
        /\ Len(res[r]) <= 1
        /\ intake[r] \in {"none", "duplicate", "accepted", "error"}
              => res[r] = << OK200 >>
        /\ intake[r] = "-" => res[r] = << >>

C7_Witness ==
    \E r, s \in Req :
        /\ intake[r] = "error" /\ res[r] = << OK200 >>
        /\ intake[s] = "none" /\ res[s] = << OK200 >>

C9_NoWaitAcrossKeys ==
    \A w \in Req :
        pc[w] = "waitlock" =>
            \E q \in Req : /\ w \in Range(waiters[q])
                           /\ SameKey(q, w)
                           /\ InFlight(q)

C9_Witness ==
    \E r, s \in Req : ~ SameKey(r, s) /\ InFlight(r) /\ InFlight(s)

\* C10: markAsCompleted is called once per background task, when the task
\* ends, and never before its pipeline has settled.
C10_CompletedExactlyOnce ==
    \A r \in Req :
        /\ completedCalls[r] = (IF pc[r] = "done" THEN 1 ELSE 0)
        /\ completedCalls[r] > 0 => settled[r] # "pending"
        /\ InBackground(r) \/ completedCalls[r] = 0

C10_Witness ==
    \E r \in Req :
        /\ pc[r] = "done" /\ settled[r] = "failed"
        /\ processing_errors[env[r].messageId] = -1
        /\ completedCalls[r] = 1

\* C11: processInBackground returns with the task only queued (no part of
\* the pipeline has run, the handler did not enter its catch), and no
\* background task ever ends in an unhandled rejection.
C11_BackgroundNeverRaises ==
    /\ unhandled = {}
    /\ \A r \in Req :
          r \in Range(immediateQueue) =>
              /\ pc[r] = "immediate" /\ stage[r] = "-"
              /\ settled[r] = "pending"
              /\ intake[r] = "accepted" /\ res[r] = << OK200 >>
    /\ \A r \in Req : Started(r) => intake[r] = "accepted"

C11_Witness ==
    \E r, s \in Req :
        /\ r \in Range(immediateQueue)
        /\ pc[s] = "done" /\ settled[s] = "failed" /\ s \notin recorded
        /\ unhandled = {}

\* the failures of id x that logProcessingError stored
RecordedFailures(x) == { r \in recorded : env[r].messageId = x }

\* C12: after n recorded failures of id x (n >= 1) the error record of x
\* exists and has retry_count n - 1 (no record when n = 0), and retry_count
\* never decreases.
C12_RetryCountIsFailuresMinusOne ==
    /\ [](\A x \in MessageIds :
             processing_errors[x] = Cardinality(RecordedFailures(x)) - 1)
    /\ [][\A x \in MessageIds :
             processing_errors'[x] >= processing_errors[x]]_vars

C12_Witness ==
    \E x \in MessageIds :
        /\ Cardinality(RecordedFailures(x)) = 2
        /\ processing_errors[x] = 1

\* C13: when logProcessingError has failed sendErrorNotification is called
\* next; when sendErrorNotification has settled, delivered or not, the task
\* calls markAsCompleted and ends; neither failure is raised further.
C13_ReportingFailuresSwallowed ==
    [][\A r \in Req :
          /\ LogErrorReturn(r, FALSE) => pc'[r] = "notify"
          /\ (\E ok \in BOOLEAN : NotifyReturn(r, ok)) =>
                /\ pc'[r] = "done"
                /\ completedCalls'[r] = completedCalls[r] + 1
                /\ env[r].messageId \notin processingMessages'
          /\ unhandled' = {}]_vars

C13_Witness ==
    \E r \in Req :
        /\ pc[r] = "notify" /\ settled[r] = "failed"
        /\ r \notin recorded
        /\ processing_errors[env[r].messageId] = -1

\* C14: when the query of isMessageProcessed fails, the request is not
\* counted as a duplicate, is answered 200 OK (the handler's catch is not
\* entered), its marker is set and its task is queued for processing.
C14_DuplicateCheckFailsOpen ==
    [][\A r \in Req :
          DbCheckError(r) =>
              /\ intake'[r] = "accepted" /\ res'[r] = << OK200 >>
              /\ env[r].messageId \in processingMessages'
              /\ immediateQueue' = Append(immediateQueue, r)
              /\ stats'.duplicates = stats.duplicates]_vars

\* Since the restart no task has ended and r is the only live one, so the
\* row of its id was there when its query was made: the query failed.
C14_Witness ==
    /\ restarts = 1 /\ stats.processed = 0 /\ stats.errors = 0
    /\ \E r \in Req :
          /\ pc[r] = "immediate"
          /\ InDatabase(messages, env[r].messageId)
          /\ \A s \in Req \ {r} : pc[s] \in {"idle", "closed", "killed", "done"}

\* C15: a request whose id is in processingMessages is reported a duplicate
\* at once, without the query; otherwise the query is made, and the request
\* is reported a duplicate exactly when a row with the id exists and the
\* query succeeded.
C15_DuplicateDecision ==
    [][\A r \in Req :
          /\ (pc[r] = "idle" /\ pc'[r] # "idle" /\ env'[r] # NoEnvelope) =>
                IF env'[r].messageId \in processingMessages
                  THEN intake'[r] = "duplicate" /\ pc'[r] = "closed"
                  ELSE intake'[r] = "-" /\ pc'[r] = "dbcheck"
          /\ (pc[r] = "dbcheck" /\ pc'[r] \notin {"dbcheck", "killed"}) =>
                (intake'[r] = "duplicate"
                    <=> (/\ InDatabase(messages, env[r].messageId)
                         /\ ~ DbCheckError(r)))]_vars

\* Since the restart no task has been accepted (none is live, none ended),
\* so the duplicate counted since then was found in the messages table.
C15_Witness ==
    /\ restarts = 1 /\ processingMessages = {}
    /\ stats = [processed |-> 0, duplicates |-> 1, errors |-> 0]
    /\ \A s \in Req : pc[s] \in {"idle", "closed", "killed", "done"}
    /\ \E r \in Req : intake[r] = "duplicate"

\* ------------------------------------------------- claims on the cache
Ended(c) == call[c].pc \in {"returned", "failed"}

\* C16: three calls for the same key (no time passes, nothing is
\* invalidated, every fetch finds its row) fetch once in total and return
\* the same value.
C16_ThreeCallsOneLoad ==
    \A a, b, c \in Calls :
        (/\ a < b /\ b < c
         /\ call[a].key = call[b].key /\ call[b].key = call[c].key
         /\ call[a].pc = "returned" /\ call[b].pc = "returned"
         /\ call[c].pc = "returned")
        => /\ call[a].fetches + call[b].fetches + call[c].fetches = 1
           /\ call[a].value = call[b].value /\ call[b].value = call[c].value

\* C17: no call is served an entry stored by a call whose fetch was in
\* flight when the key was invalidated (such a call started after the
\* invalidation, the value it gets was asked for before it).
C17_InvalidateForcesReload ==
    \A c \in Calls :
        (call[c].pc = "returned" /\ call[c].fetches = 0)
            => ~ call[call[c].from].stale

\* C18: a call whose fetch function threw ends failed, never with a value,
\* and stores no entry.
C18_LoaderErrorPropagates ==
    \A c \in Calls :
        call[c].fetches >= 2 =>
            /\ call[c].pc # "returned"
            /\ \A k \in CacheKeys : cache[k].by # c

\* C19: a call is served the stored entry only while now <= loaded_at +
\* stdTTL; a call that starts later, or finds no entry, is a miss and calls
\* the fetch function.
C19_NoEntryServedAfterTtl ==
    [][\A c \in Calls :
          (call[c].pc = "idle" /\ call'[c].pc # "idle") =>
              LET e == cache[call'[c].key] IN
              IF e # NoEntry /\ now <= e.at + stdTTL
                THEN /\ call'[c].pc = "returned" /\ call'[c].fetches = 0
                     /\ call'[c].value = e.v
                ELSE /\ call'[c].pc = "fetch" /\ call'[c].fetches = 1
                     /\ cacheStats'.misses = cacheStats.misses + 1]_vars

\* The first call stored its entry at time 0, it is gone, and the second
\* call, started one second after the entry's lifetime, is fetching.
C19_Witness ==
    \E a, b \in Calls :
        /\ a < b /\ call[a].key = call[b].key
        /\ call[a].pc = "returned" /\ call[a].fetches = 1
        /\ call[b].pc = "fetch" /\ call[b].start = stdTTL + 1
        /\ cache[call[b].key] = NoEntry

\* C20: every call started has counted one hit or one miss, a hit exactly
\* when it was served an entry; errors counts the calls whose fetch threw.
C20_CountersAccountForCalls ==
    /\ cacheStats.hits + cacheStats.misses = ncalls
    /\ cacheStats.hits =
         Cardinality({ c \in 1..ncalls : call[c].fetches = 0 })
    /\ cacheStats.misses =
         Cardinality({ c \in 1..ncalls : call[c].fetches >= 1 })
    /\ cacheStats.errors =
         Cardinality({ c \in 1..ncalls : call[c].fetches >= 2 })
    /\ cacheStats.errors <= cacheStats.misses

C20_Witness ==
    /\ cacheStats = [hits |-> 0, misses |-> 2, errors |-> 1]
    /\ \E a, b \in Calls : call[a].pc = "failed" /\ call[b].pc = "returned"

\* C21: a pipeline whose markMessageAsRead and sendReaction calls fail, every
\* other collaborator succeeding, does not fail: it is not settled as failed,
\* no error is recorded for it and no failure notification is sent.
C21_IndicatorFailuresHarmless ==
    \A r \in Req :
        detached[r] = "failed" =>
            /\ settled[r] # "failed"
            /\ pc[r] \notin {"logerr", "notify"}
            /\ r \notin recorded

\* C22: two envelopes are sequenced under the same conversation key exactly
\* when they have the same tenant channel and the same sender address.
C22_KeyIsChannelAndSender ==
    derived # << >> =>
        ( derived[1] = derived[2]
            <=> /\ sample[1].to = sample[2].to
                /\ sample[1].from = sample[2].from )

\* C23: the timer armed at acceptance removes the id's marker when it fires,
\* whether or not the pipeline has settled; a delivery that finds no marker
\* is not reported a duplicate without the query, and is accepted when the
\* query finds no row.
C23_ExpiryRemovesMarker ==
    [][\A r \in Req :
          /\ (timer[r] /\ ~ timer'[r] /\ restarts' = restarts) =>
                env[r].messageId \notin processingMessages'
          /\ ( /\ pc[r] = "idle" /\ pc'[r] # "idle" /\ env'[r] # NoEnvelope
               /\ env'[r].messageId \notin processingMessages ) =>
                intake'[r] # "duplicate"
          /\ (DbCheckReturn(r) /\ ~ InDatabase(messages, env[r].messageId)) =>
                intake'[r] = "accepted"]_vars

\* r's pipeline is pending and its timer has fired; s, delivered with the
\* same id after r was accepted, found no marker and no row and was accepted.
C23_Witness ==
    \E r, s \in Req :
        /\ r < s /\ SameId(r, s)
        /\ pc[r] = "running" /\ settled[r] = "pending" /\ ~ timer[r]
        /\ inCheckAtArrival[s] = {} /\ Accepted(s)
        /\ ~ InDatabase(messages, env[r].messageId)
        /\ restarts = 0

\* C24: a read of the health endpoint changes nothing (marker set, lock map,
\* cache entries, counters and everything else are as before), and the
\* response carries the counters, the size of the marker set as
\* currentlyProcessing and the size of the lock map as
\* conversationLocksActive.
C24_HealthReadChangesNothing ==
    /\ [][snapshot' # NoSnapshot =>
            UNCHANGED << processorVars, cacheVars, sample, derived >>]_vars
    /\ [](snapshot # NoSnapshot =>
            /\ snapshot.processor.currentlyProcessing =
                   Cardinality({ x \in MessageIds : x \in processingMessages })
            /\ snapshot.processor.conversationLocksActive =
                   Cardinality({ r \in Req : \E k \in Keys :
                                                conversationLocks[k] = r })
            /\ snapshot.processor.processed = stats.processed
            /\ snapshot.processor.duplicates = stats.duplicates
            /\ snapshot.processor.errors = stats.errors
            /\ snapshot.cache.hits = cacheStats.hits
            /\ snapshot.cache.misses = cacheStats.misses
            /\ snapshot.cache.errors = cacheStats.errors)

\* read while a pipeline runs (one marker, one lock) and a configuration is
\* cached
C24_Witness ==
    /\ snapshot.status = "healthy"
    /\ snapshot.processor.currentlyProcessing = 1
    /\ snapshot.processor.conversationLocksActive = 1
    /\ snapshot.cache.misses = 1 /\ snapshot.cache.keys = 1
    /\ \E r \in Req : pc[r] = "running"

\* C25: a task that settles leaves the entry of its key alone when the entry
\* was installed by another, newer task: it neither removes nor replaces it.
C25_SettleKeepsNewerEntry ==
    [][\A r \in Req :
          ( /\ settled[r] = "pending" /\ settled'[r] # "pending"
            /\ LockFor(conversationLocks, KeyOf(r)) \notin {r, NoTask} ) =>
              LockFor(conversationLocks', KeyOf(r)) =
                 LockFor(conversationLocks, KeyOf(r))]_vars

\* r has entered processWithLock
Enqueued(r) == pc[r] \in {"waitlock", "running", "logerr", "notify", "done"}

\* C26: when every task that entered processWithLock for a key has settled,
\* conversationLocks has no entry for the key; when that is so for every
\* key, the map is empty (conversationLocksActive = 0).
C26_NoEntryOnceAllSettled ==
    /\ \A k \in Keys :
          (\A r \in Req : (Enqueued(r) /\ KeyOf(r) = k) => settled[r] # "pending")
              => conversationLocks[k] = NoTask
    /\ (\A r \in Req : Enqueued(r) => settled[r] # "pending")
          => GetStats.conversationLocksActive = 0

\* two tasks of one key have settled, one of them after waiting for the
\* other, which failed and is still reporting its failure
C26_Witness ==
    \E r, s \in Req :
        /\ r # s /\ SameKey(r, s)
        /\ pc[r] = "logerr" /\ settled[r] = "failed"
        /\ pc[s] = "done" /\ settled[s] = "ok" /\ HasRows(s)
        /\ conversationLocks[KeyOf(r)] = NoTask
        /\ stats.processed = 1 /\ stats.errors = 1

\* C27: when the body of a task that waited for a failed task of its key
\* begins, the failed task has ended: its failure has been logged, its
\* notification sent and markAsCompleted called.
C27_FailedTaskEndsBeforeNext ==
    [][\A a, b \in Req :
          ( /\ pc[b] = "waitlock" /\ pc'[b] = "running"
            /\ a \in earlier[b]
            /\ settled'[a] = "failed" ) =>
              /\ pc'[a] = "done"
              /\ completedCalls'[a] = 1]_vars

\* C28: a pipeline execution that fails is followed by one call of
\* logProcessingError and then one call of sendErrorNotification, its key is
\* released and the tasks that waited for it start; an execution that
\* succeeds ends without either call.
C28_FailureReportedOnceInOrder ==
    [][\A r \in Req :
          /\ (settled[r] = "pending" /\ settled'[r] = "failed") =>
                /\ pc'[r] = "logerr"
                /\ LockFor(conversationLocks', KeyOf(r)) # r
                /\ \A w \in Range(waiters[r]) : pc'[w] = "running"
          /\ (settled[r] = "pending" /\ settled'[r] = "ok") => pc'[r] = "done"
          /\ (pc[r] # "logerr" /\ pc'[r] = "logerr") =>
                pc[r] = "running" /\ settled'[r] = "failed"
          /\ (pc[r] # "notify" /\ pc'[r] = "notify") => pc[r] = "logerr"
          /\ (pc[r] = "logerr" /\ pc'[r] # "logerr") => pc'[r] = "notify"
          /\ (pc[r] = "notify" /\ pc'[r] # "notify") => pc'[r] = "done"]_vars

\* r failed, was logged and notified and has ended; s, of the same key, ran
\* after it and succeeded without being reported
C28_Witness ==
    \E r, s \in Req :
        /\ r # s /\ SameKey(r, s)
        /\ settled[r] = "failed" /\ pc[r] = "done" /\ r \in recorded
        /\ settled[s] = "ok" /\ pc[s] = "done" /\ s \notin recorded
        /\ stats.errors = 1 /\ stats.processed = 1

\* C29: a delivery of an id whose pipeline has settled successfully does not
\* start the pipeline again.  Checked for the deliveries made after a
\* restart: no task has settled since the restart (the counters are 0), so r
\* settled before it, and s, which is live, was delivered after it.
C29_NoRerunAfterSuccess ==
    \A r, s \in Req :
        ( /\ r # s /\ SameId(r, s)
          /\ settled[r] = "ok"
          /\ restarts > 0 /\ stats.processed = 0 /\ stats.errors = 0 ) =>
            pc[s] \notin {"immediate", "waitlock", "running"}

\* r is accepted, not ended, and its own timer has not fired
MarkerDue(r) ==
    /\ pc[r] \in {"immediate", "waitlock", "running", "logerr", "notify"}
    /\ timer[r]

\* C30: the timer armed by an acceptance whose task has ended does not
\* remove the marker of a later acceptance of the same id whose task has not
\* ended and whose own timer has not fired.
C30_ExpiryRemovesOwnMarkerOnly ==
    [][\A r, s \in Req :
          ( /\ r # s /\ SameId(r, s)
            /\ timer[r] /\ ~ timer'[r]
            /\ pc[r] = "done"
            /\ MarkerDue(s) /\ timer'[s]
            /\ env[s].messageId \in processingMessages ) =>
              env[s].messageId \in processingMessages']_vars

\* C31: while the pipeline whose promise is stored under a key stays pending,
\* the entry stays, the tasks waiting for it stay waiting and no task of the
\* key starts; the firing of a marker timer changes nothing of this.
C31_PendingHolderKeepsKey ==
    [][\A t \in Req :
          ( /\ pc[t] = "running" /\ pc'[t] = "running"
            /\ LockFor(conversationLocks, KeyOf(t)) = t ) =>
              /\ LockFor(conversationLocks', KeyOf(t)) = t
              /\ \A s \in Req \ {t} :
                    (SameKey(s, t) /\ pc[s] # "running") => pc'[s] # "running"]_vars

\* C32: under fair scheduling, with every pipeline body that starts
\* settling, every task handed to processInBackground has its pipeline
\* started and settled and ends with its markAsCompleted call and its marker
\* removed, however many tasks wait on its key.
C32_EveryTaskEnds ==
    \A r \in Req :
        (pc[r] = "immediate") ~>
            ( /\ pc[r] = "done" /\ settled[r] # "pending"
              /\ completedCalls[r] = 1
              /\ env[r].messageId \notin processingMessages )

\* three tasks of one key have ended, two with success and one with failure
C32_Witness ==
    \E a, b, c \in Req :
        /\ a < b /\ b < c /\ SameKey(a, b) /\ SameKey(b, c)
        /\ \A t \in {a, b, c} : pc[t] = "done" /\ completedCalls[t] = 1
        /\ stats.processed = 2 /\ stats.errors = 1
        /\ processingMessages = {}

\* C33: when pipelines of two tenants' channels overlap, each makes its
\* reaction and reply calls (lines 217-218) while the service module holds
\* the configuration of its own envelope's channel.
C33_DeliversWithOwnChannelConfig ==
    [][\A r \in Req :
          ( /\ pc[r] = "running"
            /\ stage[r] = "saveReply" /\ stage'[r] = "deliver" ) =>
                businessConfig = ToOf(env[r])]_vars

\* C34: a single getCached* call invokes its fetch function at most once:
\* not at all when it is served an entry, once on a miss, whether the fetch
\* resolves or rejects.
C34_OneCallLoadsAtMostOnce ==
    \A c \in Calls :
        /\ call[c].fetches <= 1
        /\ call[c].from # 0 => call[c].fetches = 0

\* C35: on a miss, when the fetch function resolves, its result is stored
\* whatever it is (null included), so that the key then holds an entry,
\* stored by that call, which a later call is served.
C35_LoadedResultIsStored ==
    [][\A c \in Calls :
          (call[c].pc = "fetch" /\ call'[c].pc = "returned") =>
              /\ cache'[call[c].key].by = c
              /\ CacheGet(cache', call[c].key, now') # NoEntry]_vars

\* C36: the processor's counters account for every execution once:
\* processed counts the pipelines settled with success, errors those settled
\* with failure, and duplicates the requests for which isMessageProcessed
\* answered true (a query that failed answers false and counts nothing).
C36_CountersAccountForExecutions ==
    /\ stats.processed = Cardinality({ r \in Req : settled[r] = "ok" })
    /\ stats.errors = Cardinality({ r \in Req : settled[r] = "failed" })
    /\ stats.processed + stats.errors =
         Cardinality({ r \in Req : Started(r) /\ settled[r] # "pending" })
    /\ stats.duplicates =
         Cardinality({ r \in Req : intake[r] = "duplicate" })

\* one pipeline has failed, and the same message delivered again was found
\* in the database and rejected
C36_Witness ==
    \E r, s \in Req :
        /\ r # s /\ SameId(r, s)
        /\ settled[r] = "failed" /\ pc[r] = "done"
        /\ intake[s] = "duplicate" /\ pc[s] = "closed"
        /\ InDatabase(messages, env[s].messageId)
        /\ stats = [processed |-> 0, duplicates |-> 1, errors |-> 1]

\* C37: once a pipeline that delivered its reply has settled with success,
\* the inbound message shows no processing indicator: the hourglass of the
\* detached call is never applied after the removal of the awaited call.
C37_IndicatorClearedAfterSuccess ==
    \A r \in Req :
        (settled[r] = "ok" /\ reaction[r] # << >>) =>
            reaction[r][Len(reaction[r])] = NoReaction

====
